---- MODULE Spec2Model ----
(***************************************************************************)
(* Model of the zdb output parser of zfileinfo (src/src/main.rs): the      *)
(* line loop of main() with its five-state ParserState machine, the        *)
(* key/value extraction, and the block-pointer line decoder including      *)
(* DVAInfo::from_str.                                                      *)
(*                                                                         *)
(* Text is a sequence of one-character strings.  Option<T> is a sequence   *)
(* of length 0 (None) or 1 (Some).  u32 and u64 values are little-endian   *)
(* sequences of 16-bit limbs (2 and 4 limbs), so that the real widths are  *)
(* kept and overflow is detected as the carry out of the top limb.         *)
(***************************************************************************)
EXTENDS Integers, Sequences, FiniteSets, TLC

VARIABLES
    state,        \* ParserState of main()
    kv_map,       \* HashMap<String, String>
    block_infos,  \* Vec<BlockInfo>
    line,         \* the line most recently taken from reader.lines()
    nlines,       \* number of lines taken from the reader so far
    pc,           \* "reading" (in the for loop), "done" (Ok(())), "failed" (Err)
    dva_ret       \* what DVAInfo::from_str returned in the latest loop iteration

vars == <<state, kv_map, block_infos, line, nlines, pc, dva_ret>>

-----------------------------------------------------------------------------
(* Text helpers: the std string operations the parser calls.               *)

Chars(s) == [i \in 1..Len(s) |-> SubSeq(s, i, i)]

None == <<>>
Some(x) == <<x>>

WhiteSpace == {" ", "\t"}

is_whitespace(c) == c \in WhiteSpace

is_empty(s) == Len(s) = 0

starts_with(s, p) == Len(s) >= Len(p) /\ SubSeq(s, 1, Len(p)) = p

RECURSIVE trim_start(_)
trim_start(s) ==
    IF Len(s) > 0 /\ is_whitespace(s[1]) THEN trim_start(Tail(s)) ELSE s

RECURSIVE trim_end(_)
trim_end(s) ==
    IF Len(s) > 0 /\ is_whitespace(s[Len(s)])
    THEN trim_end(SubSeq(s, 1, Len(s) - 1))
    ELSE s

trim(s) == trim_end(trim_start(s))

RECURSIVE trim_end_matches(_, _)
trim_end_matches(s, c) ==
    IF Len(s) > 0 /\ s[Len(s)] = c
    THEN trim_end_matches(SubSeq(s, 1, Len(s) - 1), c)
    ELSE s

strip_prefix(s, p) ==
    IF starts_with(s, p) THEN Some(SubSeq(s, Len(p) + 1, Len(s))) ELSE None

\* Position of the first character of s satisfying the test, 0 when none does.
RECURSIVE find_from(_, _, _)
find_from(s, i, cs) ==
    IF i > Len(s) THEN 0
    ELSE IF s[i] \in cs THEN i
    ELSE find_from(s, i + 1, cs)

\* str::split_once(c): Some((before, after)) at the first c, None without one.
split_once(s, c) ==
    LET i == find_from(s, 1, {c})
    IN  IF i = 0 THEN None
        ELSE Some(<<SubSeq(s, 1, i - 1), SubSeq(s, i + 1, Len(s))>>)

\* str::split(c).collect(): the fields between the occurrences of c.
RECURSIVE split(_, _)
split(s, c) ==
    LET i == find_from(s, 1, {c})
    IN  IF i = 0 THEN <<s>>
        ELSE <<SubSeq(s, 1, i - 1)>> \o split(SubSeq(s, i + 1, Len(s)), c)

\* str::splitn(2, char::is_whitespace): at most two parts, cut at the first
\* whitespace character.
splitn2_whitespace(s) ==
    LET i == find_from(s, 1, WhiteSpace)
    IN  IF i = 0 THEN <<s>>
        ELSE <<SubSeq(s, 1, i - 1), SubSeq(s, i + 1, Len(s))>>

\* Faulty variant: every single space separates two tokens, so a run of
\* spaces gives empty tokens.
split_single_space(s) == split(s, " ")

\* str::split_whitespace().collect(): the maximal runs of non-whitespace.
RECURSIVE split_whitespace(_)
split_whitespace(s) ==
    LET t == trim_start(s)
        i == find_from(t, 1, WhiteSpace)
    IN  IF Len(t) = 0 THEN <<>>
        ELSE IF i = 0 THEN <<t>>
        ELSE <<SubSeq(t, 1, i - 1)>> \o split_whitespace(SubSeq(t, i, Len(t)))

-----------------------------------------------------------------------------
(* Integer parsing: u32 / u64 from_str_radix with checked arithmetic.      *)

LimbBase == 2 ^ 16
U32Limbs == 2
U64Limbs == 4

Zero(n) == [i \in 1..n |-> 0]

DigitChars == Chars("0123456789abcdefghijklmnopqrstuvwxyz")
UpperChars == Chars("0123456789ABCDEFGHIJKLMNOPQRSTUVWXYZ")

\* char::to_digit(radix): the digit's value, or -1 when c is no digit of radix.
to_digit(c, radix) ==
    LET lo == find_from(DigitChars, 1, {c})
        up == find_from(UpperChars, 1, {c})
        v  == IF lo > 0 THEN lo - 1 ELSE up - 1
    IN  IF v >= 0 /\ v < radix THEN v ELSE -1

\* acc * radix + carry over the limbs i..Len(acc): <<limbs, carry out>>.
RECURSIVE mul_add(_, _, _, _)
mul_add(acc, i, radix, carry) ==
    IF i > Len(acc) THEN <<<<>>, carry>>
    ELSE LET t    == acc[i] * radix + carry
             rest == mul_add(acc, i + 1, radix, t \div LimbBase)
         IN  <<<<t % LimbBase>> \o rest[1], rest[2]>>

\* Faulty variant: wrapping arithmetic, the carry out of the top limb is
\* dropped.
RECURSIVE parse_digits_wrapping(_, _, _, _)
parse_digits_wrapping(s, i, radix, acc) ==
    IF i > Len(s) THEN Some(acc)
    ELSE LET d == to_digit(s[i], radix)
             r == mul_add(acc, 1, radix, d)
         IN  IF d < 0 THEN None
             ELSE parse_digits_wrapping(s, i + 1, radix, r[1])

\* The digit loop of from_str_radix: checked_mul, checked_add per digit;
\* an invalid digit or an overflow ends it with None.
RECURSIVE parse_digits(_, _, _, _)
parse_digits(s, i, radix, acc) ==
    IF i > Len(s) THEN Some(acc)
    ELSE LET d == to_digit(s[i], radix)
             r == mul_add(acc, 1, radix, d)
         IN  IF d < 0 THEN None
             ELSE IF r[2] # 0 THEN None
             ELSE parse_digits(s, i + 1, radix, r[1])

\* <unsigned>::from_str_radix(s, radix) for a type of n limbs: empty text, a
\* lone sign, a '-', a non-digit or an overflow give None; one leading '+'
\* is accepted.
from_str_radix(s, radix, n) ==
    IF Len(s) = 0 THEN None
    ELSE IF Len(s) = 1 /\ s[1] \in {"+", "-"} THEN None
    ELSE IF s[1] = "+" THEN parse_digits(Tail(s), 1, radix, Zero(n))
    ELSE parse_digits(s, 1, radix, Zero(n))

unwrap_or(opt, dflt) == IF opt = None THEN dflt ELSE opt[1]

-----------------------------------------------------------------------------
(* DVAInfo::from_str                                                       *)

DVAInfo(vdev, offset, size) == [vdev |-> vdev, offset |-> offset, size |-> size]

\* Faulty variant: the offset field is read as decimal.
DVAInfo_from_str_decimal(dva_str) ==
    LET parts  == split(dva_str, ":")
        vdev   == from_str_radix(parts[1], 10, U32Limbs)
        offset == from_str_radix(parts[2], 10, U64Limbs)
        size   == from_str_radix(parts[3], 16, U64Limbs)
    IN  IF Len(parts) # 3 THEN None
        ELSE IF vdev = None THEN None
        ELSE IF offset = None THEN None
        ELSE IF size = None THEN None
        ELSE Some(DVAInfo(vdev[1], offset[1], size[1]))

DVAInfo_from_str(dva_str) ==
    LET parts  == split(dva_str, ":")
        vdev   == from_str_radix(parts[1], 10, U32Limbs)
        offset == from_str_radix(parts[2], 16, U64Limbs)
        size   == from_str_radix(parts[3], 16, U64Limbs)
    IN  IF Len(parts) # 3 THEN None
        ELSE IF vdev = None THEN None
        ELSE IF offset = None THEN None
        ELSE IF size = None THEN None
        ELSE Some(DVAInfo(vdev[1], offset[1], size[1]))

ZeroDVA == DVAInfo(Zero(U32Limbs), Zero(U64Limbs), Zero(U64Limbs))

-----------------------------------------------------------------------------
(* Decoding of one block line (the BlockInfo arm, tokens.len() >= 5).      *)

parse_offset(tok) == unwrap_or(from_str_radix(tok, 16, U64Limbs), Zero(U64Limbs))

\* Faulty variant: a level token without the 'L' is read as a number.
parse_level_no_prefix(tok) ==
    LET lvl == strip_prefix(trim_start(tok), <<"L">>)
    IN  IF lvl = None
        THEN unwrap_or(from_str_radix(trim_start(tok), 10, U32Limbs), Zero(U32Limbs))
        ELSE unwrap_or(from_str_radix(lvl[1], 10, U32Limbs), Zero(U32Limbs))

parse_level(tok) ==
    LET lvl == strip_prefix(trim_start(tok), <<"L">>)
    IN  IF lvl = None THEN Zero(U32Limbs)
        ELSE unwrap_or(from_str_radix(lvl[1], 10, U32Limbs), Zero(U32Limbs))

parse_dva(tok) == unwrap_or(DVAInfo_from_str(tok), ZeroDVA)

\* Faulty variant: the logical size is read as hexadecimal, like the
\* physical size.
parse_sizes_hex_lsize(tok) ==
    LET size_parts == split(tok, "/")
    IN  IF Len(size_parts) = 2
        THEN <<from_str_radix(trim_end_matches(size_parts[1], "L"), 16, U64Limbs),
               from_str_radix(trim_end_matches(size_parts[2], "P"), 16, U64Limbs)>>
        ELSE <<None, None>>

\* <<lsize, psize>> from the PSIZE/LSIZE token.
parse_sizes(tok) ==
    LET size_parts == split(tok, "/")
    IN  IF Len(size_parts) = 2
        THEN <<from_str_radix(trim_end_matches(size_parts[1], "L"), 10, U64Limbs),
               from_str_radix(trim_end_matches(size_parts[2], "P"), 16, U64Limbs)>>
        ELSE <<None, None>>

NoTags == [fill_count |-> None, birth_time |-> None, checksum |-> None]

\* Faulty variant: a field that is already set is kept.
tag_step_first_wins(acc, t) ==
    LET f == strip_prefix(t, Chars("F="))
        b == strip_prefix(t, Chars("B="))
        c == strip_prefix(t, Chars("cksum="))
    IN  IF f # None
        THEN IF acc.fill_count # None THEN acc
             ELSE [acc EXCEPT !.fill_count = from_str_radix(f[1], 10, U32Limbs)]
        ELSE IF b # None
        THEN IF acc.birth_time # None THEN acc ELSE [acc EXCEPT !.birth_time = Some(b[1])]
        ELSE IF c # None
        THEN IF acc.checksum # None THEN acc ELSE [acc EXCEPT !.checksum = Some(c[1])]
        ELSE acc

\* One iteration of `for t in &tokens[4..]`.
tag_step(acc, t) ==
    LET f == strip_prefix(t, Chars("F="))
        b == strip_prefix(t, Chars("B="))
        c == strip_prefix(t, Chars("cksum="))
    IN  IF f # None THEN [acc EXCEPT !.fill_count = from_str_radix(f[1], 10, U32Limbs)]
        ELSE IF b # None THEN [acc EXCEPT !.birth_time = Some(b[1])]
        ELSE IF c # None THEN [acc EXCEPT !.checksum = Some(c[1])]
        ELSE acc

RECURSIVE parse_tags(_, _, _)
parse_tags(tokens, i, acc) ==
    IF i > Len(tokens) THEN acc
    ELSE parse_tags(tokens, i + 1, tag_step(acc, tokens[i]))

FirstTagToken == 5

decode_block(tokens) ==
    LET sizes == parse_sizes(tokens[4])
        tags  == parse_tags(tokens, FirstTagToken, NoTags)
    IN  [offset     |-> parse_offset(tokens[1]),
         level      |-> parse_level(tokens[2]),
         dva        |-> parse_dva(tokens[3]),
         lsize      |-> sizes[1],
         psize      |-> sizes[2],
         fill_count |-> tags.fill_count,
         birth_time |-> tags.birth_time,
         checksum   |-> tags.checksum]

MinTokens == 5

-----------------------------------------------------------------------------
(* Key/value extraction (the KeyValuePairs arm).                           *)

\* Faulty variant: a key that is already present keeps its value.
insert_keep_first(map, key, value) ==
    [k \in (DOMAIN map) \cup {key} |-> IF k \in DOMAIN map THEN map[k] ELSE value]

insert(map, key, value) ==
    [k \in (DOMAIN map) \cup {key} |-> IF k = key THEN value ELSE map[k]]

\* Faulty variant: the indentation gate is missing.
is_indented_always(l) == TRUE

is_indented(l) == starts_with(l, <<" ">>) \/ starts_with(l, <<"\t">>)

\* Faulty variant: the whitespace split is tried before the colon split.
kv_extract_ws_first(l) ==
    LET trimmed == trim_start(l)
        colon   == split_once(trimmed, ":")
        parts   == splitn2_whitespace(trimmed)
    IN  IF ~(starts_with(l, <<" ">>) \/ starts_with(l, <<"\t">>)) THEN None
        ELSE IF Len(parts) = 2 /\ ~is_empty(parts[1]) /\ ~is_empty(trim(parts[2]))
             THEN Some(<<trim(parts[1]), trim(parts[2])>>)
        ELSE IF colon # None THEN Some(<<trim(colon[1][1]), trim(colon[1][2])>>)
        ELSE None

\* The pair a line inserts, Some(<<key, value>>), or None.
kv_extract(l) ==
    LET trimmed == trim_start(l)
        colon   == split_once(trimmed, ":")
        parts   == splitn2_whitespace(trimmed)
    IN  IF ~is_indented(l) THEN None
        ELSE IF colon # None THEN Some(<<trim(colon[1][1]), trim(colon[1][2])>>)
        ELSE IF Len(parts) = 2 /\ ~is_empty(parts[1]) /\ ~is_empty(trim(parts[2]))
             THEN Some(<<trim(parts[1]), trim(parts[2])>>)
        ELSE None

kv_insert(map, l) ==
    LET kv == kv_extract(l)
    IN  IF kv = None THEN map ELSE insert(map, kv[1][1], kv[1][2])

DnodeFlags == Chars("dnode flags:")
IndirectBlocks == Chars("Indirect blocks")

NotCalled == [called |-> FALSE, ret |-> None]
Called(r) == [called |-> TRUE, ret |-> r]

-----------------------------------------------------------------------------
(* The line loop of main().                                                *)

ParserState == {"Dataset", "ObjectHeader", "KeyValuePairs", "BlockInfo", "Other"}

EmptyMap == [k \in {} |-> <<>>]

\* Bound on the number of lines the reader delivers.
MaxLines == 7

Init ==
    /\ state = "Dataset"
    /\ kv_map = EmptyMap
    /\ block_infos = <<>>
    /\ line = <<>>
    /\ nlines = 0
    /\ pc = "reading"
    /\ dva_ret = NotCalled

\* The state each arm leaves the parser in.

\* Faulty variant: only an exactly empty line ends the dataset section.
dataset_next_untrimmed(l) == IF is_empty(l) THEN "ObjectHeader" ELSE "Dataset"

dataset_next(l) == IF is_empty(trim(l)) THEN "ObjectHeader" ELSE "Dataset"

\* Faulty variant: the marker is looked for anywhere in the line.
header_next_contains(l) ==
    IF \E i \in 1..Len(l) : starts_with(SubSeq(l, i, Len(l)), DnodeFlags)
    THEN "KeyValuePairs"
    ELSE "ObjectHeader"

header_next(l) ==
    IF starts_with(trim(l), DnodeFlags) THEN "KeyValuePairs" ELSE "ObjectHeader"

\* Faulty variant: the section header is looked for in the trimmed line.
kv_next_trimmed(l) ==
    IF starts_with(trim(l), IndirectBlocks) THEN "BlockInfo" ELSE "KeyValuePairs"

kv_next(l) == IF starts_with(l, IndirectBlocks) THEN "BlockInfo" ELSE "KeyValuePairs"

\* Faulty variant: the blank line after the block list reopens the
\* key/value section.
block_next_reopen(l) == IF is_empty(l) THEN "KeyValuePairs" ELSE "BlockInfo"

\* Faulty variant: the blank line after the block list restarts the parser.
block_next_restart(l) == IF is_empty(l) THEN "Dataset" ELSE "BlockInfo"

\* Faulty variant: the blank-line test is made on the trimmed line.
block_next_trimmed(l) == IF is_empty(trim(l)) THEN "Other" ELSE "BlockInfo"

block_next(l) == IF is_empty(l) THEN "Other" ELSE "BlockInfo"

\* Faulty variant: a blank line in the trailing output restarts the parser.
other_next_restart(l) == IF is_empty(trim(l)) THEN "ObjectHeader" ELSE "Other"

other_next(l) == "Other"

\* Faulty variant: off by one in the token-count test.
enough_tokens_strict(tokens) == Len(tokens) > MinTokens

enough_tokens(tokens) == Len(tokens) >= MinTokens

\* `let line = line?; let trimmed = line.trim();`
Take(l) ==
    /\ pc = "reading"
    /\ nlines < MaxLines
    /\ line' = l
    /\ nlines' = nlines + 1
    /\ pc' = pc

DatasetArm(l) ==
    /\ state = "Dataset"
    /\ Take(l)
    /\ state' = dataset_next(l)
    /\ dva_ret' = NotCalled
    /\ UNCHANGED <<kv_map, block_infos>>

\* The arm ends after the assignment: a match arm does not continue into
\* the next arm.
ObjectHeaderArm(l) ==
    /\ state = "ObjectHeader"
    /\ Take(l)
    /\ state' = header_next(l)
    /\ dva_ret' = NotCalled
    /\ UNCHANGED <<kv_map, block_infos>>

KeyValuePairsArm(l) ==
    /\ state = "KeyValuePairs"
    /\ Take(l)
    /\ kv_map' = kv_insert(kv_map, l)
    /\ state' = kv_next(l)
    /\ dva_ret' = NotCalled
    /\ UNCHANGED block_infos

\* Faulty variant: the offset is unwrapped, so a token 0 that is no
\* hexadecimal number ends the run.
BlockInfoArm_unwrap(l) ==
    /\ state = "BlockInfo"
    /\ pc = "reading"
    /\ nlines < MaxLines
    /\ line' = l
    /\ nlines' = nlines + 1
    /\ LET tokens == split_whitespace(l)
       IN  IF block_next(l) # "BlockInfo"
           THEN /\ state' = block_next(l)
                /\ pc' = pc
                /\ dva_ret' = NotCalled
                /\ UNCHANGED block_infos
           ELSE IF enough_tokens(tokens) /\ from_str_radix(tokens[1], 16, U64Limbs) = None
           THEN /\ pc' = "failed"
                /\ dva_ret' = NotCalled
                /\ UNCHANGED <<state, block_infos>>
           ELSE IF enough_tokens(tokens)
           THEN /\ block_infos' = Append(block_infos, decode_block(tokens))
                /\ pc' = pc
                /\ dva_ret' = Called(DVAInfo_from_str(tokens[3]))
                /\ UNCHANGED state
           ELSE /\ pc' = pc
                /\ dva_ret' = NotCalled
                /\ UNCHANGED <<state, block_infos>>
    /\ UNCHANGED kv_map

BlockInfoArm(l) ==
    /\ state = "BlockInfo"
    /\ Take(l)
    /\ LET tokens == split_whitespace(l)
       IN  IF block_next(l) # "BlockInfo"
           THEN /\ state' = block_next(l)
                /\ dva_ret' = NotCalled
                /\ UNCHANGED block_infos
           ELSE IF enough_tokens(tokens)
           THEN /\ block_infos' = Append(block_infos, decode_block(tokens))
                /\ dva_ret' = Called(DVAInfo_from_str(tokens[3]))
                /\ UNCHANGED state
           ELSE /\ dva_ret' = NotCalled
                /\ UNCHANGED <<state, block_infos>>
    /\ UNCHANGED kv_map

OtherArm(l) ==
    /\ state = "Other"
    /\ Take(l)
    /\ state' = other_next(l)
    /\ dva_ret' = NotCalled
    /\ UNCHANGED <<kv_map, block_infos>>

\* reader.lines() yields Err (an I/O error, a line that is not UTF-8):
\* `line?` returns it from main.
ReadError ==
    /\ pc = "reading"
    /\ pc' = "failed"
    /\ UNCHANGED <<state, kv_map, block_infos, line, nlines, dva_ret>>

\* reader.lines() is exhausted: the tables are printed and main returns Ok.
EndOfInput ==
    /\ pc = "reading"
    /\ pc' = "done"
    /\ UNCHANGED <<state, kv_map, block_infos, line, nlines, dva_ret>>

-----------------------------------------------------------------------------
(* Inputs.                                                                 *)

CompositeLine ==
    Chars("0 L2   1:167eb4000:2000 20000L/c00P F=44771 B=78/78 cksum=14a59e34a60")

HeaderLines ==
    { Chars(""), Chars(" "), Chars("Dataset tank/fs [ZPL]"),
      Chars("    dnode flags: USED_BYTES"), Chars("dnode flags: USED_BYTES"),
      Chars(" x dnode flags: y") }

KeyValueLines ==
    { Chars("    flags: 40"), Chars("\tflags: 41"), Chars("    checksum inherit"),
      Chars("\tcompress \t lz4"), Chars("    foo:"), Chars("    : bar"),
      Chars("    word"), Chars("    word "), Chars("  a b: c"), Chars("    k: v: w"),
      Chars("flags: 99"), Chars("Indirect blocks:"), Chars("Indirect blocks"),
      Chars("Indirect block"), Chars("  Indirect blocks:") }

BlockLines ==
    { CompositeLine,
      Chars("0 L0 1:2:3 1L/1P"),
      Chars("zz Lx 1:2 q F=1"),
      Chars("\t ") }

Lines == HeaderLines \cup KeyValueLines \cup BlockLines

Next ==
    \/ \E l \in Lines : DatasetArm(l)
    \/ \E l \in Lines : ObjectHeaderArm(l)
    \/ \E l \in Lines : KeyValuePairsArm(l)
    \/ \E l \in Lines : BlockInfoArm(l)
    \/ \E l \in Lines : OtherArm(l)
    \/ ReadError
    \/ EndOfInput

Spec == Init /\ [][Next]_vars

\* The loop body is straight-line code and the reader of a finite input
\* either yields the next line or ends: the loop always takes its next step.
SpecFair == Spec /\ WF_vars(Next)

-----------------------------------------------------------------------------
(* The block-line decoder on its own: one block line, in the state the     *)
(* parser is in right after the "Indirect blocks" header.                  *)

MaxTokLen == 6

TokAlphabet == {"1", "f", "g", ":", "+"}

GeneratedTokens == UNION {[1..n -> TokAlphabet] : n \in 0..MaxTokLen}

NotableTokens ==
    { Chars("1:167eb4000:2000"), Chars("1:2"), Chars("1:2:3:4"),
      Chars("+1:+a:+b"), Chars("-1:0:0"), Chars("1:-a:0"), Chars("1:0x10:0"),
      Chars("1:AB:Cd"), Chars("a:1:1"),
      Chars("4294967295:ffffffffffffffff:ffffffffffffffff"),
      Chars("4294967296:0:0"), Chars("1:10000000000000000:0"),
      Chars("1:0:10000000000000000") }

Tokens == GeneratedTokens \cup NotableTokens

DVAPrefix == Chars("0 L0 ")
DVASuffix == Chars(" 1L/1P F=1")

DVALine(tok) == DVAPrefix \o tok \o DVASuffix

DecodePrefix == <<Chars(""), Chars("dnode flags: USED_BYTES"), Chars("Indirect blocks:")>>

InitDecode ==
    /\ state = "BlockInfo"
    /\ kv_map = EmptyMap
    /\ block_infos = <<>>
    /\ line = DecodePrefix[Len(DecodePrefix)]
    /\ nlines = Len(DecodePrefix)
    /\ pc = "reading"
    /\ dva_ret = NotCalled

DecodeStep ==
    /\ nlines = Len(DecodePrefix)
    /\ \E tok \in Tokens : BlockInfoArm(DVALine(tok))

SpecDecode == InitDecode /\ [][DecodeStep]_vars

-----------------------------------------------------------------------------
(* The key/value extraction on its own: one line, in the state the parser  *)
(* is in after the header and a first key/value line.                      *)

MaxKvLen == 6

KvAlphabet == {" ", "\t", "a", ":"}

GeneratedKvLines == UNION {[1..n -> KvAlphabet] : n \in 0..MaxKvLen}

KvInputs == GeneratedKvLines \cup KeyValueLines \cup HeaderLines

KvPrefix == <<Chars(""), Chars("dnode flags: USED_BYTES"), Chars("    flags: 40")>>

InitKv ==
    /\ state = "KeyValuePairs"
    /\ kv_map = [k \in {Chars("flags")} |-> Chars("40")]
    /\ block_infos = <<>>
    /\ line = KvPrefix[Len(KvPrefix)]
    /\ nlines = Len(KvPrefix)
    /\ pc = "reading"
    /\ dva_ret = NotCalled

KvStep ==
    /\ nlines = Len(KvPrefix)
    /\ \E l \in KvInputs : KeyValuePairsArm(l)

SpecKv == InitKv /\ [][KvStep]_vars

-----------------------------------------------------------------------------
(* The field decoders of a block line on their own: one block line whose   *)
(* offset, level, address, size or tag tokens vary, in the state the       *)
(* parser is in right after the "Indirect blocks" header.                  *)

MaxNumLen == 3
MaxSizeLen == 5
MaxTags == 3

OffsetAlphabet == {"0", "1", "f", "A", "g", "+"}
LevelAlphabet == {"L", "1", "9", "x", "+"}
SizeAlphabet == {"1", "a", "L", "P", "/"}

OffsetTokens ==
    UNION {[1..n -> OffsetAlphabet] : n \in 1..MaxNumLen}
        \cup { Chars("167eb4000"), Chars("0x10"), Chars("-1"),
               Chars("ffffffffffffffff"), Chars("10000000000000001"),
               Chars("+10000000000000001"), Chars("00000000000000001") }

LevelTokens ==
    UNION {[1..n -> LevelAlphabet] : n \in 1..MaxNumLen}
        \cup { Chars("l2"), Chars("L-1"), Chars("L007"), Chars("L4294967295"),
               Chars("L4294967297"), Chars("L42949672950") }

AddressTokens ==
    { Chars("1:167eb4000:2000"), Chars("1:2"),
      Chars("4294967295:ffffffffffffffff:ffffffffffffffff"),
      Chars("4294967297:2:3"), Chars("1:10000000000000001:3"),
      Chars("1:2:10000000000000001") }

SizeTokens ==
    UNION {[1..n -> SizeAlphabet] : n \in 1..MaxSizeLen}
        \cup { Chars("20000L/c00P"), Chars("20000L/aa00P"), Chars("+5L/+fP"),
               Chars("18446744073709551615L/ffffffffffffffffP"),
               Chars("18446744073709551617L/1P"), Chars("1L/10000000000000001P"),
               Chars("184467440737095516150L/1P") }

TagTokens ==
    { Chars("F=44771"), Chars("F=7"), Chars("F=x"), Chars("B=78/78"), Chars("B="),
      Chars("cksum=14a59e34a60"), Chars("cksum="), Chars("xF=1") }

TagLists ==
    UNION {[1..n -> TagTokens] : n \in 1..MaxTags}
        \cup { <<Chars("F=")>>, <<Chars("b=1")>>, <<Chars("f=1"), Chars("CKSUM=1")>>,
               <<Chars("F=+5")>>, <<Chars("F=4294967295")>>, <<Chars("F=4294967297")>>,
               <<Chars("F=7"), Chars("F=4294967297")>>,
               <<Chars("F=42949672950"), Chars("B=1/2")>> }

BadBothLine == Chars("g2 x3 1:2:3 10L/1fP F=7 B=1/2 cksum=ab")

MaxLine ==
    Chars("ffffffffffffffff L4294967295 4294967295:ffffffffffffffff:ffffffffffffffff")
        \o Chars(" 18446744073709551615L/ffffffffffffffffP F=4294967295")

OverflowLine ==
    Chars("10000000000000001 L4294967297 4294967297:10000000000000001:10000000000000001")
        \o Chars(" 18446744073709551617L/10000000000000001P F=4294967297")

NotableBlockLines == {CompositeLine, BadBothLine, MaxLine, OverflowLine}

RECURSIVE join(_)
join(ts) == IF ts = <<>> THEN <<>> ELSE <<" ">> \o Head(ts) \o join(Tail(ts))

OffsetLine(t) == t \o Chars(" L2 1:2:3 10L/1fP F=7 B=1/2 cksum=ab")
LevelLine(t) == Chars("1f ") \o t \o Chars(" 1:2:3 10L/1fP F=7 B=1/2 cksum=ab")
AddressLine(t) == Chars("1f L2 ") \o t \o Chars(" 10L/1fP F=7 B=1/2 cksum=ab")
SizeLine(t) == Chars("1f L2 1:2:3 ") \o t \o Chars(" F=7 B=1/2 cksum=ab")
TagLine(ts) == Chars("1f L2 1:2:3 10L/1fP") \o join(ts)

AtBlockStart == nlines = Len(DecodePrefix)

OffsetStep == AtBlockStart /\ \E t \in OffsetTokens : BlockInfoArm(OffsetLine(t))

LevelStep == AtBlockStart /\ \E t \in LevelTokens : BlockInfoArm(LevelLine(t))

AddressStep == AtBlockStart /\ \E t \in AddressTokens : BlockInfoArm(AddressLine(t))

SizeStep == AtBlockStart /\ \E t \in SizeTokens : BlockInfoArm(SizeLine(t))

TagStep == AtBlockStart /\ \E ts \in TagLists : BlockInfoArm(TagLine(ts))

NotableStep == AtBlockStart /\ \E l \in NotableBlockLines : BlockInfoArm(l)

NextBlock ==
    \/ OffsetStep
    \/ LevelStep
    \/ AddressStep
    \/ SizeStep
    \/ TagStep
    \/ NotableStep

SpecBlock == InitDecode /\ [][NextBlock]_vars

-----------------------------------------------------------------------------
(* Properties.                                                             *)

\* A step that takes one line from the reader and processes it.
LineStep == nlines' = nlines + 1

Rank(st) ==
    CASE st = "Dataset"       -> 0
      [] st = "ObjectHeader"  -> 1
      [] st = "KeyValuePairs" -> 2
      [] st = "BlockInfo"     -> 3
      [] st = "Other"         -> 4

\* Declarative text predicates used by the properties.
AllWhite(s) == \A i \in 1..Len(s) : s[i] \in WhiteSpace

HasPrefix(s, p) == Len(p) <= Len(s) /\ \A i \in 1..Len(p) : s[i] = p[i]

\* The text without its leading and trailing whitespace.
Stripped(s) ==
    IF AllWhite(s) THEN <<>>
    ELSE LET a == CHOOSE i \in 1..Len(s) :
                     s[i] \notin WhiteSpace /\ \A j \in 1..(i - 1) : s[j] \in WhiteSpace
             b == CHOOSE i \in 1..Len(s) :
                     s[i] \notin WhiteSpace /\ \A j \in (i + 1)..Len(s) : s[j] \in WhiteSpace
         IN  [i \in 1..(b - a + 1) |-> s[a + i - 1]]

\* Number of whitespace-separated tokens: the positions where a token starts.
TokenCount(s) ==
    Cardinality({i \in 1..Len(s) :
                    s[i] \notin WhiteSpace /\ (i = 1 \/ s[i - 1] \in WhiteSpace)})

IsPrefixOf(a, b) == Len(a) <= Len(b) /\ \A i \in 1..Len(a) : b[i] = a[i]

\* C1: the parser state after each processed line is the same as before or
\* later in the order Dataset, ObjectHeader, KeyValuePairs, BlockInfo, Other;
\* no step moves it to an earlier state.
C1_Monotonic == [][Rank(state') >= Rank(state)]_vars

C1_Witness ==
    /\ state = "Other"
    /\ kv_map # EmptyMap
    /\ block_infos # <<>>

\* C2: in state ObjectHeader a line whose trimmed text starts with
\* "dnode flags:" moves the state to KeyValuePairs and is processed as a
\* key/value candidate in the same step: when it is indented, the table holds
\* key "dnode flags" with the line's value right after the step.
C2_DnodeLineExtracted ==
    [][(state = "ObjectHeader" /\ LineStep /\ HasPrefix(Stripped(line'), DnodeFlags))
        => /\ state' = "KeyValuePairs"
           /\ (line'[1] \in WhiteSpace
                 => /\ Chars("dnode flags") \in DOMAIN kv_map'
                    /\ kv_map'[Chars("dnode flags")] =
                         Stripped(SubSeq(Stripped(line'), Len(DnodeFlags) + 1,
                                         Len(Stripped(line')))))]_vars

\* C3: in state BlockInfo a non-empty line appends exactly one record when it
\* has 5 or more whitespace-separated tokens and nothing when it has fewer;
\* the state stays BlockInfo and the sequence before the line is a prefix of
\* the sequence after it.
C3_AppendOnly ==
    [][(state = "BlockInfo" /\ LineStep /\ line' # <<>>)
        => /\ state' = "BlockInfo"
           /\ IsPrefixOf(block_infos, block_infos')
           /\ Len(block_infos') =
                 Len(block_infos) + (IF TokenCount(line') >= 5 THEN 1 ELSE 0)]_vars

C3_Witness ==
    /\ state = "BlockInfo"
    /\ Len(block_infos) = 2
    /\ block_infos[1] # block_infos[2]
    /\ line = Chars("0 L0 1:2:3 1L/1P")

\* C4: in state BlockInfo the empty line moves the state to Other and appends
\* no record; a non-empty line of whitespace only leaves the state at
\* BlockInfo and appends no record.
C4_EmptyLineEndsBlocks ==
    [][(state = "BlockInfo" /\ LineStep /\ AllWhite(line'))
        => /\ block_infos' = block_infos
           /\ state' = (IF Len(line') = 0 THEN "Other" ELSE "BlockInfo")]_vars

C4_Witness ==
    /\ state = "Other"
    /\ line = <<>>
    /\ block_infos # <<>>

\* C5: once the state is Other every further line leaves the state at Other
\* and leaves the key/value table and the block records unchanged.
C5_OtherAbsorbs ==
    [][state = "Other"
        => state' = "Other" /\ kv_map' = kv_map /\ block_infos' = block_infos]_vars

C5_Witness ==
    /\ state = "Other"
    /\ line = Chars("    flags: 40")
    /\ kv_map # EmptyMap
    /\ \A k \in DOMAIN kv_map : kv_map[k] # Chars("40")
    /\ block_infos # <<>>

C7_NoEmptyEntries ==
    \A k \in DOMAIN kv_map : k # <<>> /\ kv_map[k] # <<>>

HasColon(s) == \E i \in 1..Len(s) : s[i] = ":"

FirstColon(s) ==
    CHOOSE i \in 1..Len(s) : s[i] = ":" /\ \A j \in 1..(i - 1) : s[j] # ":"

FirstWhite(s) ==
    CHOOSE i \in 1..Len(s) :
        s[i] \in WhiteSpace /\ \A j \in 1..(i - 1) : s[j] \notin WhiteSpace

\* The pair an indented line stands for: split at the first colon when there
\* is one, otherwise at the first whitespace run of the stripped line when the
\* line has two words or more; None for a single word or a blank line.
ExpectedPair(l) ==
    LET w == Stripped(l)
    IN  IF HasColon(l)
        THEN Some(<<Stripped(SubSeq(l, 1, FirstColon(l) - 1)),
                    Stripped(SubSeq(l, FirstColon(l) + 1, Len(l)))>>)
        ELSE IF \E i \in 1..Len(w) : w[i] \in WhiteSpace
        THEN Some(<<SubSeq(w, 1, FirstWhite(w) - 1),
                    Stripped(SubSeq(w, FirstWhite(w) + 1, Len(w)))>>)
        ELSE None

\* map with exactly the entry key -> value written into it.
Written(old, new, key, value) ==
    /\ DOMAIN new = DOMAIN old \cup {key}
    /\ new[key] = value
    /\ \A k \in DOMAIN old : k # key => new[k] = old[k]

\* C8: in state KeyValuePairs an indented line is split at its first colon
\* when it has one (key and value trimmed), otherwise at its first whitespace
\* run; the colon rule wins even when whitespace precedes the colon, and an
\* indented single word inserts nothing.
C8_SplitRule ==
    [][(state = "KeyValuePairs" /\ LineStep /\ line' # <<>> /\ line'[1] \in WhiteSpace)
        => /\ IF ExpectedPair(line') = None
              THEN kv_map' = kv_map
              ELSE Written(kv_map, kv_map', ExpectedPair(line')[1][1],
                           ExpectedPair(line')[1][2])
           /\ line' = Chars("    flags: 40")
                 => Written(kv_map, kv_map', Chars("flags"), Chars("40"))
           /\ line' = Chars("    checksum inherit")
                 => Written(kv_map, kv_map', Chars("checksum"), Chars("inherit"))
           /\ line' = Chars("  a b: c")
                 => Written(kv_map, kv_map', Chars("a b"), Chars("c"))
           /\ line' = Chars("    word") => kv_map' = kv_map]_vars

C8_Witness ==
    /\ state = "KeyValuePairs"
    /\ line = Chars("  a b: c")
    /\ DOMAIN kv_map = {Chars("flags"), Chars("a b")}
    /\ kv_map[Chars("flags")] = Chars("40")
    /\ kv_map[Chars("a b")] = Chars("c")

\* C9: in state KeyValuePairs a line moves the state to BlockInfo exactly
\* when the untrimmed line starts with "Indirect blocks"; that line appends
\* no record and inserts no entry, and the indented "  Indirect blocks:" does
\* not trigger the transition.
C9_IndirectBlocksHeader ==
    [][(state = "KeyValuePairs" /\ LineStep)
        => /\ state' \in {"KeyValuePairs", "BlockInfo"}
           /\ state' = "BlockInfo" <=> HasPrefix(line', Chars("Indirect blocks"))
           /\ state' = "BlockInfo" => (kv_map' = kv_map /\ block_infos' = block_infos)
           /\ line' = Chars("  Indirect blocks:") => state' = "KeyValuePairs"]_vars

C9_Witness ==
    /\ state = "BlockInfo"
    /\ line = Chars("Indirect blocks:")
    /\ kv_map # EmptyMap
    /\ block_infos = <<>>

\* The digits of an unsigned number: the text without one leading '+'.
Digits(f) == IF f # <<>> /\ f[1] = "+" THEN SubSeq(f, 2, Len(f)) ELSE f

IsDigit(c, radix) ==
    \E v \in 0..(radix - 1) : DigitChars[v + 1] = c \/ UpperChars[v + 1] = c

DigitValue(c) ==
    CHOOSE v \in 0..(Len(DigitChars) - 1) : DigitChars[v + 1] = c \/ UpperChars[v + 1] = c

\* The digits from the first one that is not '0'.
Significant(d) ==
    IF \A i \in 1..Len(d) : d[i] = "0" THEN <<>>
    ELSE LET a == CHOOSE i \in 1..Len(d) : d[i] # "0" /\ \A j \in 1..(i - 1) : d[j] = "0"
         IN  SubSeq(d, a, Len(d))

\* d <= max, as numbers written in the same radix without leading zeros.
NotAbove(d, max) ==
    \/ Len(d) < Len(max)
    \/ /\ Len(d) = Len(max)
       /\ \/ \A i \in 1..Len(d) : DigitValue(d[i]) = DigitValue(max[i])
          \/ \E i \in 1..Len(d) :
                /\ DigitValue(d[i]) < DigitValue(max[i])
                /\ \A j \in 1..(i - 1) : DigitValue(d[j]) = DigitValue(max[j])

MaxU32Decimal == Chars("4294967295")
MaxU64Hex == Chars("ffffffffffffffff")

\* f is an unsigned number of the radix that is at most max: one digit or
\* more, optionally after a single '+' (the syntax u32/u64 parsing accepts).
ValidUnsigned(f, radix, max) ==
    /\ Digits(f) # <<>>
    /\ \A i \in 1..Len(Digits(f)) : IsDigit(Digits(f)[i], radix)
    /\ NotAbove(Significant(Digits(f)), max)

ColonsOf(tok) == {i \in 1..Len(tok) : tok[i] = ":"}

FieldsOf(tok) ==
    LET i == CHOOSE x \in ColonsOf(tok) : \A y \in ColonsOf(tok) : x <= y
        j == CHOOSE x \in ColonsOf(tok) : \A y \in ColonsOf(tok) : x >= y
    IN  <<SubSeq(tok, 1, i - 1), SubSeq(tok, i + 1, j - 1), SubSeq(tok, j + 1, Len(tok))>>

ValidAddress(tok) ==
    /\ Cardinality(ColonsOf(tok)) = 2
    /\ ValidUnsigned(FieldsOf(tok)[1], 10, MaxU32Decimal)
    /\ ValidUnsigned(FieldsOf(tok)[2], 16, MaxU64Hex)
    /\ ValidUnsigned(FieldsOf(tok)[3], 16, MaxU64Hex)

\* The number a short digit text denotes, as the sum of its place values;
\* ShortField bounds the texts it is applied to.
RECURSIVE PlaceSum(_, _, _)
PlaceSum(d, radix, i) ==
    IF i > Len(d) THEN 0
    ELSE DigitValue(d[i]) * radix ^ (Len(d) - i) + PlaceSum(d, radix, i + 1)

ShortField == 6

\* The limbs of a number below 2^31.
LimbsOf(v, n) ==
    [i \in 1..n |-> IF i = 1 THEN v % LimbBase ELSE IF i = 2 THEN v \div LimbBase ELSE 0]

Denotes(limbs, f, radix) ==
    Len(Digits(f)) <= ShortField
        => limbs = LimbsOf(PlaceSum(Digits(f), radix, 1), Len(limbs))

\* The token of the block line that was decoded.
DecodedToken == SubSeq(line, Len(DVAPrefix) + 1, Len(line) - Len(DVASuffix))

\* C10: DVAInfo::from_str returns an address exactly when the token has 3
\* colon-separated fields, field 0 a valid unsigned decimal (u32) and fields 1
\* and 2 valid unsigned hexadecimal numbers (u64), with the fields' values;
\* "1:167eb4000:2000" gives (1, 0x167eb4000, 0x2000), "1:2" gives None.  The
\* record of the line is appended in both cases, with the address returned
\* or, on None, with the all-zero address.
C10_DecodeAddress ==
    dva_ret.called =>
        LET tok == DecodedToken
            ret == dva_ret.ret
        IN  /\ ret # None <=> ValidAddress(tok)
            /\ ret # None =>
                  /\ Denotes(ret[1].vdev, FieldsOf(tok)[1], 10)
                  /\ Denotes(ret[1].offset, FieldsOf(tok)[2], 16)
                  /\ Denotes(ret[1].size, FieldsOf(tok)[3], 16)
            /\ tok = Chars("1:167eb4000:2000") =>
                  ret = Some([vdev   |-> <<1, 0>>,
                              offset |-> <<16384, 26603, 1, 0>>,   \* 0x1_67eb_4000
                              size   |-> <<8192, 0, 0, 0>>])       \* 0x2000
            /\ tok = Chars("1:2") => ret = None
            /\ Len(block_infos) = 1
            /\ block_infos[1].dva =
                  IF ret = None
                  THEN [vdev |-> <<0, 0>>, offset |-> <<0, 0, 0, 0>>, size |-> <<0, 0, 0, 0>>]
                  ELSE ret[1]

C10_Witness ==
    /\ dva_ret = Called(None)
    /\ DecodedToken = Chars("1:2")
    /\ Len(block_infos) = 1
    /\ block_infos[1].dva.vdev = <<0, 0>>
    /\ block_infos[1].fill_count = Some(<<1, 0>>)

-----------------------------------------------------------------------------
(* Properties of the block-line decoder.                                   *)

\* The whitespace-separated words of a line, by their first and last
\* positions.
WordStarts(s) ==
    {i \in 1..Len(s) : s[i] \notin WhiteSpace /\ (i = 1 \/ s[i - 1] \in WhiteSpace)}

WordEnds(s) ==
    {i \in 1..Len(s) : s[i] \notin WhiteSpace /\ (i = Len(s) \/ s[i + 1] \in WhiteSpace)}

Kth(S, k) == CHOOSE x \in S : Cardinality({y \in S : y < x}) = k - 1

Word(s, k) == SubSeq(s, Kth(WordStarts(s), k), Kth(WordEnds(s), k))

HasSuffix(s, p) ==
    Len(p) <= Len(s) /\ \A i \in 1..Len(p) : s[Len(s) - Len(p) + i] = p[i]

\* A block line has been decoded from the state after the header.
BlockDecoded == nlines = Len(DecodePrefix) + 1

\* The decoded fields of the fixed tokens "1:2:3 10L/1fP F=7 B=1/2 cksum=ab".
FixedTail == Chars(" 1:2:3 10L/1fP F=7 B=1/2 cksum=ab")

FixedTailDecoded(rec) ==
    /\ rec.dva = [vdev |-> <<1, 0>>, offset |-> <<2, 0, 0, 0>>, size |-> <<3, 0, 0, 0>>]
    /\ rec.lsize = Some(<<10, 0, 0, 0>>)
    /\ rec.psize = Some(<<31, 0, 0, 0>>)
    /\ rec.fill_count = Some(<<7, 0>>)
    /\ rec.birth_time = Some(Chars("1/2"))
    /\ rec.checksum = Some(Chars("ab"))

\* The level token's number: the text after a leading 'L', None without one.
LevelDigits(w) == IF HasPrefix(w, <<"L">>) THEN Some(SubSeq(w, 2, Len(w))) ELSE None

\* C11: when a block line is decoded, a token 0 that is no valid unsigned
\* hexadecimal gives offset 0, and a token 1 that does not start with 'L' or
\* whose remainder is no valid unsigned decimal gives level 0; the record is
\* appended all the same and the other fields are those of their own tokens.
C11_OffsetLevelFallback ==
    BlockDecoded =>
        LET w1  == Word(line, 1)
            w2  == Word(line, 2)
            rec == block_infos[1]
        IN  /\ Len(block_infos) = 1
            /\ IF ValidUnsigned(w1, 16, MaxU64Hex)
               THEN Denotes(rec.offset, w1, 16)
               ELSE rec.offset = <<0, 0, 0, 0>>
            /\ IF LevelDigits(w2) # None /\ ValidUnsigned(LevelDigits(w2)[1], 10, MaxU32Decimal)
               THEN Denotes(rec.level, LevelDigits(w2)[1], 10)
               ELSE rec.level = <<0, 0>>
            /\ HasSuffix(line, FixedTail) => FixedTailDecoded(rec)
            /\ w1 = Chars("1f") => rec.offset = <<31, 0, 0, 0>>
            /\ w2 = Chars("L2") => rec.level = <<2, 0>>
            /\ w1 = Chars("167eb4000") => rec.offset = <<16384, 26603, 1, 0>>
            /\ w2 = Chars("L4294967295") => rec.level = <<65535, 65535>>

C11_Witness ==
    /\ BlockDecoded
    /\ line = BadBothLine
    /\ Len(block_infos) = 1
    /\ block_infos[1].offset = <<0, 0, 0, 0>>
    /\ block_infos[1].level = <<0, 0>>
    /\ block_infos[1].fill_count = Some(<<7, 0>>)

MaxU64Decimal == Chars("18446744073709551615")

SlashesOf(tok) == {i \in 1..Len(tok) : tok[i] = "/"}

\* s without the run of c at its end.
StripTrailing(s, c) ==
    LET n == CHOOSE i \in 0..Len(s) :
                 (i = 0 \/ s[i] # c) /\ \A j \in (i + 1)..Len(s) : s[j] = c
    IN  SubSeq(s, 1, n)

\* opt is the value of the text f if f is a valid unsigned number of the
\* radix that is at most max, and absent otherwise.
OptionalNumber(opt, f, radix, max) ==
    IF ValidUnsigned(f, radix, max)
    THEN opt # None /\ Denotes(opt[1], f, radix)
    ELSE opt = None

\* C12: token 3 of a decoded block line with exactly one '/' gives the
\* logical size from the left part without its trailing 'L', read as decimal,
\* and the physical size from the right part without its trailing 'P', read
\* as hexadecimal, each absent when its own part is no valid number; a token
\* with no '/' or more than one gives neither size.
C12_SizeToken ==
    BlockDecoded =>
        LET w   == Word(line, 4)
            rec == block_infos[1]
        IN  /\ IF Cardinality(SlashesOf(w)) = 1
               THEN LET p == CHOOSE i \in SlashesOf(w) : TRUE
                        left  == StripTrailing(SubSeq(w, 1, p - 1), "L")
                        right == StripTrailing(SubSeq(w, p + 1, Len(w)), "P")
                    IN  /\ OptionalNumber(rec.lsize, left, 10, MaxU64Decimal)
                        /\ OptionalNumber(rec.psize, right, 16, MaxU64Hex)
               ELSE rec.lsize = None /\ rec.psize = None
            /\ w = Chars("aL/aP") => rec.lsize = None /\ rec.psize = Some(<<10, 0, 0, 0>>)
            /\ w = Chars("1L/LP") => rec.lsize = Some(<<1, 0, 0, 0>>) /\ rec.psize = None
            /\ w = Chars("11L/P") => rec.lsize = Some(<<11, 0, 0, 0>>) /\ rec.psize = None
            /\ w = Chars("1/1/1") => rec.lsize = None /\ rec.psize = None
            /\ w = Chars("20000L/aa00P") =>
                   rec.lsize = Some(<<20000, 0, 0, 0>>) /\ rec.psize = Some(<<43520, 0, 0, 0>>)
            /\ w = Chars("18446744073709551615L/ffffffffffffffffP") =>
                   /\ rec.lsize = Some(<<65535, 65535, 65535, 65535>>)
                   /\ rec.psize = Some(<<65535, 65535, 65535, 65535>>)

C12_Witness ==
    /\ BlockDecoded
    /\ Word(line, 4) = Chars("aL/aP")
    /\ block_infos[1].lsize = None
    /\ block_infos[1].psize = Some(<<10, 0, 0, 0>>)

\* The text after the prefix p in the last of the words 5, 6, ... of s that
\* start with p; None when no such word starts with p.
LastTagged(s, p) ==
    LET at == {k \in 5..TokenCount(s) : HasPrefix(Word(s, k), p)}
    IN  IF at = {} THEN None
        ELSE LET k == CHOOSE x \in at : \A y \in at : y <= x
             IN  Some(SubSeq(Word(s, k), Len(p) + 1, Len(Word(s, k))))

\* C13: of the tokens 4..end of a decoded block line, the last one starting
\* with "F=" gives the fill count (its remainder as unsigned decimal, absent
\* when that is no valid number), the last one starting with "B=" the
\* birth-time and the last one starting with "cksum=" the checksum (the
\* remainder as it is); other tokens count for nothing, and a field with no
\* such token is absent.
C13_TagTokens ==
    BlockDecoded =>
        LET rec == block_infos[1]
            f   == LastTagged(line, Chars("F="))
        IN  /\ IF f = None THEN rec.fill_count = None
               ELSE OptionalNumber(rec.fill_count, f[1], 10, MaxU32Decimal)
            /\ rec.birth_time = LastTagged(line, Chars("B="))
            /\ rec.checksum = LastTagged(line, Chars("cksum="))
            /\ line = TagLine(<<Chars("F=7"), Chars("F=x")>>) => rec.fill_count = None
            /\ line = TagLine(<<Chars("F=x"), Chars("F=7"), Chars("xF=1")>>) =>
                   rec.fill_count = Some(<<7, 0>>)
            /\ line = TagLine(<<Chars("F=4294967295")>>) =>
                   rec.fill_count = Some(<<65535, 65535>>)
            /\ line = TagLine(<<Chars("f=1"), Chars("CKSUM=1")>>) =>
                   rec.fill_count = None /\ rec.birth_time = None /\ rec.checksum = None

C13_Witness ==
    /\ BlockDecoded
    /\ line = TagLine(<<Chars("B=78/78"), Chars("F=44771"), Chars("B=")>>)
    /\ block_infos[1].fill_count = Some(<<44771, 0>>)
    /\ block_infos[1].birth_time = Some(<<>>)
    /\ block_infos[1].checksum = None

\* The record of the example line of the BlockInfo documentation.
CompositeRecord ==
    [offset     |-> <<0, 0, 0, 0>>,
     level      |-> <<2, 0>>,
     dva        |-> [vdev |-> <<1, 0>>, offset |-> <<16384, 26603, 1, 0>>,
                     size |-> <<8192, 0, 0, 0>>],
     lsize      |-> Some(<<20000, 0, 0, 0>>),
     psize      |-> Some(<<3072, 0, 0, 0>>),
     fill_count |-> Some(<<44771, 0>>),
     birth_time |-> Some(Chars("78/78")),
     checksum   |-> Some(Chars("14a59e34a60"))]

\* C14: the line "0 L2   1:167eb4000:2000 20000L/c00P F=44771 B=78/78
\* cksum=14a59e34a60" processed in state BlockInfo appends exactly one record:
\* offset 0, level 2, address (1, 0x167eb4000, 0x2000), logical size 20000
\* (decimal), physical size 0xc00, fill count 44771, birth-time "78/78" and
\* checksum "14a59e34a60"; the state stays BlockInfo.
C14_CompositeLine ==
    [][state = "BlockInfo" /\ LineStep /\ line' = CompositeLine
          => /\ block_infos' = Append(block_infos, CompositeRecord)
             /\ state' = "BlockInfo"]_vars

C14_Witness ==
    /\ state = "BlockInfo"
    /\ line = CompositeLine
    /\ Len(block_infos) = 2
    /\ block_infos[2] = CompositeRecord

-----------------------------------------------------------------------------
(* Properties of the section transitions and of the tables.                *)

\* C15: a line processed in state ObjectHeader moves the state to
\* KeyValuePairs exactly when its text without surrounding whitespace starts
\* with "dnode flags:"; every other line, one that has the marker further
\* inside or a blank one included, leaves the state ObjectHeader and both
\* tables as they were.
C15_HeaderMarker ==
    [][state = "ObjectHeader" /\ LineStep
          => /\ state' = IF HasPrefix(Stripped(line'), DnodeFlags)
                         THEN "KeyValuePairs"
                         ELSE "ObjectHeader"
             /\ state' = "ObjectHeader" => kv_map' = kv_map /\ block_infos' = block_infos
             /\ line' \in {Chars(" x dnode flags: y"), Chars(""), Chars(" "),
                           Chars("Indirect blocks:"), Chars("    flags: 40")}
                    => state' = "ObjectHeader"
             /\ line' \in {Chars("    dnode flags: USED_BYTES"), Chars("dnode flags: USED_BYTES")}
                    => state' = "KeyValuePairs"]_vars

C15_Witness ==
    /\ state = "ObjectHeader"
    /\ line = Chars(" x dnode flags: y")
    /\ nlines = 3
    /\ kv_map = EmptyMap
    /\ block_infos = <<>>

\* C16: a line processed in state Dataset moves the state to ObjectHeader
\* when it is empty or all whitespace and leaves it Dataset otherwise, so the
\* first such line ends the section; no line processed in state Dataset
\* changes either table.
C16_DatasetBlankLine ==
    [][state = "Dataset" /\ LineStep
          => /\ state' = IF AllWhite(line') THEN "ObjectHeader" ELSE "Dataset"
             /\ kv_map' = kv_map
             /\ block_infos' = block_infos
             /\ line' \in {Chars(""), Chars(" "), Chars("\t ")} => state' = "ObjectHeader"
             /\ line' \in {Chars("dnode flags: USED_BYTES"), Chars("    flags: 40"),
                           Chars("Indirect blocks:"), CompositeLine}
                    => state' = "Dataset"]_vars

C16_Witness ==
    /\ state = "ObjectHeader"
    /\ line = Chars("\t ")
    /\ nlines = 1
    /\ kv_map = EmptyMap
    /\ block_infos = <<>>

\* C17: whatever the lines are, each one the reader yields is processed once
\* and in turn, and processing it leaves the loop reading, ready for the next
\* line; the loop is left only from the reader (its end, or its failure to
\* deliver a line), never by the content of a line, the end of the input can
\* always be taken, and the run of a finite input ends.
C17_Termination ==
    /\ [][LineStep => pc = "reading" /\ pc' = "reading" /\ line' \in Lines]_vars
    /\ [][pc' # pc => pc = "reading" /\ nlines' = nlines /\ line' = line]_vars
    /\ [][nlines' # nlines => nlines' = nlines + 1]_vars
    /\ [](pc = "reading" => ENABLED (EndOfInput /\ pc' = "done"))
    /\ <>(pc # "reading")

C17_Witness ==
    /\ pc = "done"
    /\ state = "BlockInfo"
    /\ Len(block_infos) = 2
    /\ block_infos[1].offset = <<0, 0, 0, 0>>
    /\ block_infos[1].dva = ZeroDVA
    /\ block_infos[1].lsize = None
    /\ block_infos[2] = CompositeRecord

\* The line l, processed in state KeyValuePairs, yields an entry for key k.
Yields(l, k) ==
    /\ l # <<>>
    /\ l[1] \in WhiteSpace
    /\ ExpectedPair(l) # None
    /\ ExpectedPair(l)[1][1] = k

\* C18: the table is a function of its keys and last-write-wins.  A step
\* leaves every key with the value the line just processed in state
\* KeyValuePairs yields for it, when it yields that key, and with the value
\* it had in every other case; no key is ever removed.  So the value of a key
\* is always the one from the last line that yielded the key, and an insert
\* changes no other key.
C18_LastWriteWins ==
    [][/\ DOMAIN kv_map \subseteq DOMAIN kv_map'
       /\ \A k \in DOMAIN kv_map' :
             IF state = "KeyValuePairs" /\ LineStep /\ Yields(line', k)
             THEN kv_map'[k] = ExpectedPair(line')[1][2]
             ELSE k \in DOMAIN kv_map /\ kv_map'[k] = kv_map[k]
       /\ (state = "KeyValuePairs" /\ LineStep /\ line' = Chars("\tflags: 41"))
             => kv_map'[Chars("flags")] = Chars("41")
       /\ (state = "KeyValuePairs" /\ LineStep /\ line' = Chars("    flags: 40"))
             => kv_map'[Chars("flags")] = Chars("40")]_vars

C18_Witness ==
    /\ state = "KeyValuePairs"
    /\ line = Chars("\tflags: 41")
    /\ nlines = MaxLines
    /\ DOMAIN kv_map = {Chars("flags"), Chars("checksum"), Chars("compress")}
    /\ kv_map[Chars("flags")] = Chars("41")
    /\ kv_map[Chars("checksum")] = Chars("inherit")
    /\ kv_map[Chars("compress")] = Chars("lz4")

\* C19: the tables agree with the section the parser is in.  The key/value
\* table is empty in Dataset and ObjectHeader, the record list is empty in
\* Dataset, ObjectHeader and KeyValuePairs, and from BlockInfo on the
\* key/value table never changes.
C19_TablesFollowState ==
    /\ [](state \in {"Dataset", "ObjectHeader"} => kv_map = EmptyMap)
    /\ [](state \in {"Dataset", "ObjectHeader", "KeyValuePairs"} => block_infos = <<>>)
    /\ [][Rank(state) >= Rank("BlockInfo") => kv_map' = kv_map]_vars

C19_Witness ==
    /\ state = "Other"
    /\ pc = "done"
    /\ DOMAIN kv_map = {Chars("flags")}
    /\ Len(block_infos) = 2

-----------------------------------------------------------------------------
(* Properties of the integer widths.                                       *)

\* f is written with digits of the radix only (optionally after one '+') and
\* its value is above max.
Exceeds(f, radix, max) ==
    /\ Digits(f) # <<>>
    /\ \A i \in 1..Len(Digits(f)) : IsDigit(Digits(f)[i], radix)
    /\ ~NotAbove(Significant(Digits(f)), max)

\* C20: a number too large for its field is a parse failure, it does not
\* wrap.  In a decoded block line an offset above 2^64-1 gives offset 0, a
\* level above 2^32-1 gives level 0, an address with a device id above 2^32-1
\* or an offset or length above 2^64-1 gives the all-zero address, a size
\* above 2^64-1 gives an absent size and a fill count above 2^32-1 an absent
\* fill count; 2^32+1 and 2^64+1 do not give 1.
C20_NoWrap ==
    BlockDecoded =>
        LET rec == block_infos[1]
            w1  == Word(line, 1)
            w2  == Word(line, 2)
            w3  == Word(line, 3)
            w4  == Word(line, 4)
            f   == LastTagged(line, Chars("F="))
        IN  /\ Exceeds(w1, 16, MaxU64Hex) => rec.offset = <<0, 0, 0, 0>>
            /\ (LevelDigits(w2) # None /\ Exceeds(LevelDigits(w2)[1], 10, MaxU32Decimal))
                   => rec.level = <<0, 0>>
            /\ (/\ Cardinality(ColonsOf(w3)) = 2
                /\ \/ Exceeds(FieldsOf(w3)[1], 10, MaxU32Decimal)
                   \/ Exceeds(FieldsOf(w3)[2], 16, MaxU64Hex)
                   \/ Exceeds(FieldsOf(w3)[3], 16, MaxU64Hex))
                   => rec.dva = ZeroDVA
            /\ Cardinality(SlashesOf(w4)) = 1 =>
                   LET p == CHOOSE i \in SlashesOf(w4) : TRUE
                   IN  /\ Exceeds(StripTrailing(SubSeq(w4, 1, p - 1), "L"), 10, MaxU64Decimal)
                              => rec.lsize = None
                       /\ Exceeds(StripTrailing(SubSeq(w4, p + 1, Len(w4)), "P"), 16, MaxU64Hex)
                              => rec.psize = None
            /\ (f # None /\ Exceeds(f[1], 10, MaxU32Decimal)) => rec.fill_count = None
            /\ w1 \in {Chars("10000000000000001"), Chars("+10000000000000001")}
                   => rec.offset = <<0, 0, 0, 0>>
            /\ w2 \in {Chars("L4294967297"), Chars("L42949672950")} => rec.level = <<0, 0>>
            /\ w3 \in {Chars("4294967297:2:3"), Chars("1:10000000000000001:3"),
                       Chars("1:2:10000000000000001")}
                   => rec.dva = ZeroDVA
            /\ w4 = Chars("18446744073709551617L/1P")
                   => rec.lsize = None /\ rec.psize = Some(<<1, 0, 0, 0>>)
            /\ w4 = Chars("1L/10000000000000001P")
                   => rec.lsize = Some(<<1, 0, 0, 0>>) /\ rec.psize = None
            /\ line = TagLine(<<Chars("F=7"), Chars("F=4294967297")>>) => rec.fill_count = None
            /\ line = MaxLine =>
                   /\ rec.offset = <<65535, 65535, 65535, 65535>>
                   /\ rec.level = <<65535, 65535>>
                   /\ rec.dva.vdev = <<65535, 65535>>
                   /\ rec.dva.offset = <<65535, 65535, 65535, 65535>>
                   /\ rec.dva.size = <<65535, 65535, 65535, 65535>>
                   /\ rec.fill_count = Some(<<65535, 65535>>)

C20_Witness ==
    /\ BlockDecoded
    /\ line = OverflowLine
    /\ block_infos[1].offset = <<0, 0, 0, 0>>
    /\ block_infos[1].level = <<0, 0>>
    /\ block_infos[1].dva = ZeroDVA
    /\ block_infos[1].lsize = None
    /\ block_infos[1].psize = None
    /\ block_infos[1].fill_count = None

====
